---- MODULE Spec2Model ----
(***************************************************************************)
(* Model of src/index.js: the "List Unique Projects" action.               *)
(*                                                                         *)
(* main() looks up the rate budget, reads the repository list file, runs   *)
(* listUniqueProjects for every repository (one paginated GraphQL query    *)
(* per repository, every request passing through the throttle handlers of *)
(* the client built on lines 24-55), appends one CSV row per repository    *)
(* that succeeded, and writes header + rows to the output file.            *)
(*                                                                         *)
(* The environment (the repository list file, what the server holds for    *)
(* each repository, which handler the installed throttling plugin          *)
(* dispatches a secondary-rate-limit signal to) is chosen in Init; what    *)
(* the server answers to each request (success, primary rate limit,        *)
(* secondary rate limit, hard error) and how it cuts the issues into pages *)
(* is chosen request by request.                                           *)
(***************************************************************************)
EXTENDS Integers, Sequences, FiniteSets

\* ---------------------------------------------------------------- bounds
MaxRepos == 2      \* lines of the repository list file
MaxIssues == 2     \* issues of the exhaustively enumerated repository
MaxEdges == 2      \* project edges of one of its issues
PageSize == 2      \* issues the server puts in one page at most
MaxRetries == 2    \* secondary-rate-limit answers the server gives one request

\* ------------------------------------------------------------ environment
P5 == [number |-> 5, title |-> "Roadmap"]
P7 == [number |-> 7, title |-> "Bugs"]
P8 == [number |-> 8, title |-> "Roadmap"]

\* Project references of the exhaustively enumerated repository: two
\* projects with one title and two identifiers.
DeepRefs == {P5, P8}

RepoNames == {"alpha", "beta", "ghost"}

orgName == "org"

\* Sequences over S of length at most n.
SeqUpTo(S, n) == UNION {[1..k -> S] : k \in 0..n}

\* What the server holds per repository name.  "ghost" does not exist: every
\* query for it ends in an error.
Catalog ==
  [r \in RepoNames |->
     CASE r = "alpha" -> [exists |-> TRUE,
                          issues |-> << <<P5, P7>>, <<P5>>, <<>> >>,
                          totalCount |-> 4]
       [] r = "beta"  -> [exists |-> TRUE,
                          issues |-> << <<P8>> >>,
                          totalCount |-> 1]
       [] OTHER       -> [exists |-> FALSE, issues |-> <<>>, totalCount |-> 0]]

DeepIssues == SeqUpTo(DeepRefs, MaxEdges)
DeepIssueLists == SeqUpTo(DeepIssues, MaxIssues)

csvHeaders ==
  <<"org_name", "repo_name", "issues_linked_to_projects",
    "unique_projects_linked_by_issues", "projects_linked_to_repo">>

VARIABLES
  fileState,      \* "ok" | "missing" | "notFile": what repos_file points at
  fileLines,      \* the lines of the file
  server,         \* what the server holds for each repository name
  abuseHandler,   \* handler the plugin dispatches the secondary signal to
  pc,             \* position of main
  remainingCalls, \* main: result of getRateLimit ("unset" until it returned)
  repos,          \* main: result of readReposFromFile
  i,              \* main: number of iterations of the for-of loop started
  csvData,        \* main: rows accumulated so far
  inflight,       \* answer of the server travelling to the client
  retryCount,     \* options.request.retryCount of the current request
  cursor,         \* paginate: issues already delivered ($cursor)
  pageCount,      \* paginate: pages merged for the current call
  response,       \* listUniqueProjects: merged response
  uniqueProjects, \* listUniqueProjects: the Map, entries in insertion order
  issuesWithProjectCount,
  linkedProjectsCount,
  log,            \* core.info "Processing repo" / core.error "Error processing repo"
  failed,         \* message given to core.setFailed, "none" if not called
  outputFile,     \* rows of the output file, <<>> while it does not exist
  networkUsed     \* TRUE once a GraphQL request has been sent

vars == <<fileState, fileLines, server, abuseHandler, pc, remainingCalls, repos,
          i, csvData, inflight, retryCount, cursor, pageCount, response,
          uniqueProjects, issuesWithProjectCount, linkedProjectsCount, log,
          failed, outputFile, networkUsed>>

env == <<fileState, fileLines, server, abuseHandler>>
aggState == <<response, uniqueProjects, issuesWithProjectCount, linkedProjectsCount>>

\* ----------------------------------------------------- throttle handlers
\* onRateLimit: retries once.
onRateLimitAlways(rc) == TRUE
onRateLimit(rc) == rc < 1

\* onSecondaryRateLimit: logs, returns undefined.
onSecondaryRateLimit(rc) == FALSE

\* onAbuseLimit: logs, returns true.
onAbuseLimit(rc) == TRUE

\* The handler the plugin calls on a secondary-rate-limit answer.
SecondaryWantsRetry(rc) ==
  IF abuseHandler = "onAbuseLimit" THEN onAbuseLimit(rc)
  ELSE onSecondaryRateLimit(rc)

\* ------------------------------------------------------------ aggregation
EmptyResponse == [nodes |-> <<>>, totalCount |-> 0]

\* uniqueProjects.has(number)
HasByTitle(m, p) == \E k \in 1..Len(m) : m[k].title = p.title
Has(m, p) == \E k \in 1..Len(m) : m[k].number = p.number

\* uniqueProjects.get(project.number).count += 1
Increment(m, p) ==
  [k \in 1..Len(m) |->
     IF m[k].number = p.number THEN [m[k] EXCEPT !.count = @ + 1] ELSE m[k]]

\* projects.forEach(...), lines 107-118
RECURSIVE ForEachProject(_, _)
ForEachProject(projects, m) ==
  IF projects = <<>> THEN m
  ELSE LET p == Head(projects)
           m1 == IF ~Has(m, p)
                 THEN Append(m, [number |-> p.number, title |-> p.title, count |-> 0])
                 ELSE m
       IN ForEachProject(Tail(projects), Increment(m1, p))

\* for (const node of response.repository.issues.nodes), lines 99-119
RECURSIVE ForEachIssue(_, _)
ForEachIssue(nodes, st) ==
  IF nodes = <<>> THEN st
  ELSE LET projects == Head(nodes)
           n == IF Len(projects) > 0 THEN st.issuesWithProjectCount + 1
                ELSE st.issuesWithProjectCount
       IN ForEachIssue(Tail(nodes),
            [uniqueProjects |-> ForEachProject(projects, st.uniqueProjects),
             issuesWithProjectCount |-> n])

\* const uniqueProjects = new Map(), line 86
NewMapLeaky == uniqueProjects
NewMap == <<>>

\* paginate: the next page's nodes are appended, the first page's scalars stay.
MergeResponsesReplace(acc, page, first) == page
MergeResponses(acc, page, first) ==
  IF first THEN page
  ELSE [acc EXCEPT !.nodes = @ \o page.nodes]

\* csvData += `${orgName},${repo},...\n`, line 232
AppendRowFront(data, row) == <<row>> \o data
AppendRow(data, row) == Append(data, row)

\* line.trim() of a line of the file: a line is <<padded, name>>.
Trim(line) == line[2]

\* --------------------------------------------------------------- initial
InitProgram ==
  /\ pc = "getRateLimit"
  /\ remainingCalls = "unset"
  /\ repos = <<>>
  /\ i = 0
  /\ csvData = <<>>
  /\ inflight = "none"
  /\ retryCount = 0
  /\ cursor = 0
  /\ pageCount = 0
  /\ response = EmptyResponse
  /\ uniqueProjects = <<>>
  /\ issuesWithProjectCount = 0
  /\ linkedProjectsCount = 0
  /\ log = <<>>
  /\ failed = "none"
  /\ outputFile = <<>>
  /\ networkUsed = FALSE

\* A list of up to MaxRepos repositories against the catalogue.
BatchInputs ==
  /\ fileState \in {"ok", "missing", "notFile"}
  /\ fileLines \in SeqUpTo({FALSE} \X RepoNames, MaxRepos)
  /\ fileState # "ok" => fileLines = <<>>
  /\ server = Catalog

\* One repository holding any issue list within the bounds.
DeepInputs ==
  /\ fileState = "ok"
  /\ fileLines = << <<TRUE, "alpha">> >>
  /\ \E l \in DeepIssueLists :
       server = [Catalog EXCEPT !["alpha"] =
                   [exists |-> TRUE, issues |-> l, totalCount |-> 3]]

Init ==
  /\ InitProgram
  /\ abuseHandler \in {"onSecondaryRateLimit", "onAbuseLimit"}
  /\ (BatchInputs \/ DeepInputs)


\* --------------------------------------------------------------- requests
Min(a, b) == IF a < b THEN a ELSE b

CallPcs == {"getRateLimit", "paginate"}

\* The repository of the current iteration of the for-of loop.
repo == repos[i]

\* octokit.graphql(...) on line 153 and each page request of
\* octokit.graphql.paginate(...) on line 92: the request leaves, the server
\* decides its answer.  A repository the server does not hold is never
\* answered with data.
SendRequest ==
  /\ pc \in CallPcs
  /\ inflight = "none"
  /\ \E a \in {"ok", "primary", "secondary", "error"} :
       /\ a = "ok" => (IF pc = "getRateLimit" THEN TRUE ELSE server[repo].exists)
       /\ a = "secondary" => retryCount < MaxRetries
       /\ a = "primary" => retryCount <= MaxRetries
       /\ inflight' = a
  /\ networkUsed' = TRUE
  /\ UNCHANGED <<env, pc, remainingCalls, repos, i, csvData, retryCount, cursor,
                 pageCount, aggState, log, failed, outputFile>>

\* The throttling plugin retries the request: options.request.retryCount++.
RetryRequest ==
  /\ retryCount' = retryCount + 1
  /\ inflight' = "none"
  /\ UNCHANGED <<env, pc, remainingCalls, repos, i, csvData, cursor, pageCount,
                 aggState, log, failed, outputFile, networkUsed>>

\* getRateLimit's catch (lines 155-158) rethrows into main's outer catch
\* (lines 241-243): core.setFailed, nothing else runs.
GetRateLimitCatchSwallows(reason) ==
  /\ pc' = "readRepos"
  /\ UNCHANGED <<failed, log>>
GetRateLimitCatch(reason) ==
  /\ pc' = "done"
  /\ failed' = "actionFailed"
  /\ UNCHANGED log

\* listUniqueProjects' catch (lines 134-139) rethrows into the catch of the
\* loop body (lines 233-237): core.error, the loop goes on.
RepoCatchAborts(reason) ==
  /\ pc' = "done"
  /\ failed' = "actionFailed"
  /\ log' = Append(log, [repo |-> repo, result |-> reason])
RepoCatch(reason) ==
  /\ pc' = "loop"
  /\ log' = Append(log, [repo |-> repo, result |-> reason])
  /\ UNCHANGED failed

\* The awaited call rejects.
FailCall(reason) ==
  /\ inflight' = "none"
  /\ IF pc = "getRateLimit" THEN GetRateLimitCatch(reason) ELSE RepoCatch(reason)
  /\ UNCHANGED <<env, remainingCalls, repos, i, csvData, retryCount, cursor,
                 pageCount, aggState, outputFile, networkUsed>>

\* Primary rate limit: throttle.onRateLimit, lines 31-41.
RecvPrimary ==
  /\ inflight = "primary"
  /\ IF onRateLimit(retryCount) THEN RetryRequest ELSE FailCall("primary")

\* Secondary rate limit: throttle.onSecondaryRateLimit or throttle.onAbuseLimit,
\* lines 42-53.
RecvSecondary ==
  /\ inflight = "secondary"
  /\ IF SecondaryWantsRetry(retryCount) THEN RetryRequest ELSE FailCall("secondary")

\* Any other failure of the request.
RecvError ==
  /\ inflight = "error"
  /\ FailCall("error")

\* getRateLimit returns response.rateLimit.remaining, lines 153-154, 208-209.
RecvRateLimit ==
  /\ pc = "getRateLimit"
  /\ inflight = "ok"
  /\ inflight' = "none"
  /\ remainingCalls' = "known"
  /\ retryCount' = 0
  /\ pc' = "readRepos"
  /\ UNCHANGED <<env, repos, i, csvData, cursor, pageCount, aggState, log,
                 failed, outputFile, networkUsed>>

\* One page of octokit.graphql.paginate, line 92: the server delivers the
\* next issues after the cursor, the page is merged, and the loop goes on
\* while pageInfo.hasNextPage.
RecvPage ==
  /\ pc = "paginate"
  /\ inflight = "ok"
  /\ LET data == server[repo]
         remaining == Len(data.issues) - cursor
     IN \E k \in (IF remaining = 0 THEN {0} ELSE 1..Min(PageSize, remaining)) :
          LET page == [nodes |-> SubSeq(data.issues, cursor + 1, cursor + k),
                       totalCount |-> data.totalCount]
              hasNextPage == cursor + k < Len(data.issues)
          IN /\ response' = MergeResponses(response, page, pageCount = 0)
             /\ cursor' = cursor + k
             /\ pageCount' = pageCount + 1
             /\ pc' = IF hasNextPage THEN "paginate" ELSE "aggregate"
  /\ inflight' = "none"
  /\ retryCount' = 0
  /\ UNCHANGED <<env, remainingCalls, repos, i, csvData, uniqueProjects,
                 issuesWithProjectCount, linkedProjectsCount, log, failed,
                 outputFile, networkUsed>>

\* ------------------------------------------------------------------- main
\* readReposFromFile, lines 161-183, and lines 211-218 of main.
ReadReposFromFile ==
  /\ pc = "readRepos"
  /\ IF fileState = "missing"
     THEN failed' = "fileNotFound" /\ repos' = <<>>
     ELSE IF fileState = "notFile"
     THEN failed' = "notAFile" /\ repos' = <<>>
     ELSE /\ repos' = [k \in 1..Len(fileLines) |-> Trim(fileLines[k])]
          /\ UNCHANGED failed
  /\ csvData' = <<>>
  /\ pc' = "loop"
  /\ UNCHANGED <<env, remainingCalls, i, inflight, retryCount, cursor, pageCount,
                 aggState, log, outputFile, networkUsed>>

\* for (const repo of repos): the next repository; listUniqueProjects starts
\* with fresh locals (lines 86-89) and calls paginate.
ForNext ==
  /\ pc = "loop"
  /\ i < Len(repos)
  /\ i' = i + 1
  /\ uniqueProjects' = NewMap
  /\ issuesWithProjectCount' = 0
  /\ linkedProjectsCount' = 0
  /\ response' = EmptyResponse
  /\ cursor' = 0
  /\ pageCount' = 0
  /\ retryCount' = 0
  /\ pc' = "paginate"
  /\ UNCHANGED <<env, remainingCalls, repos, csvData, inflight, log, failed,
                 outputFile, networkUsed>>

\* listUniqueProjects after paginate resolved (lines 95-141) and the rest of
\* the loop body (lines 224-232).
Aggregate ==
  /\ pc = "aggregate"
  /\ LET st == ForEachIssue(response.nodes,
                 [uniqueProjects |-> uniqueProjects,
                  issuesWithProjectCount |-> issuesWithProjectCount])
     IN /\ uniqueProjects' = st.uniqueProjects
        /\ issuesWithProjectCount' = st.issuesWithProjectCount
        /\ linkedProjectsCount' = response.totalCount
        /\ csvData' = AppendRow(csvData,
             <<orgName, repo, st.issuesWithProjectCount,
               Len(st.uniqueProjects), response.totalCount>>)
  /\ log' = Append(log, [repo |-> repo, result |-> "ok"])
  /\ pc' = "loop"
  /\ UNCHANGED <<env, remainingCalls, repos, i, inflight, retryCount, cursor,
                 pageCount, response, failed, outputFile, networkUsed>>

\* The for-of loop is exhausted.
LoopExit ==
  /\ pc = "loop"
  /\ i = Len(repos)
  /\ pc' = "write"
  /\ UNCHANGED <<env, remainingCalls, repos, i, csvData, inflight, retryCount,
                 cursor, pageCount, aggState, log, failed, outputFile, networkUsed>>

\* fs.writeFileSync(outputFileName, csvHeaders + csvData), line 240.
WriteReport ==
  /\ pc = "write"
  /\ outputFile' = <<csvHeaders>> \o csvData
  /\ pc' = "done"
  /\ UNCHANGED <<env, remainingCalls, repos, i, csvData, inflight, retryCount,
                 cursor, pageCount, aggState, log, failed, networkUsed>>

\* writeFileSync throws: main's outer catch, lines 241-243.
WriteFails ==
  /\ pc = "write"
  /\ failed' = "actionFailed"
  /\ pc' = "done"
  /\ UNCHANGED <<env, remainingCalls, repos, i, csvData, inflight, retryCount,
                 cursor, pageCount, aggState, log, outputFile, networkUsed>>

Next ==
  \/ SendRequest
  \/ RecvRateLimit
  \/ RecvPage
  \/ RecvPrimary
  \/ RecvSecondary
  \/ RecvError
  \/ ReadReposFromFile
  \/ ForNext
  \/ Aggregate
  \/ LoopExit
  \/ WriteReport
  \/ WriteFails

Spec == Init /\ [][Next]_vars


\* ------------------------------------------------------------- properties
\* What the report should say, stated on sets instead of the loops above.
IdsIn(nodes) ==
  UNION {{nodes[a][b].number : b \in 1..Len(nodes[a])} : a \in 1..Len(nodes)}

IssuesReferencing(nodes, n) ==
  {a \in 1..Len(nodes) : \E b \in 1..Len(nodes[a]) : nodes[a][b].number = n}

IssuesWithProjects(nodes) == {a \in 1..Len(nodes) : Len(nodes[a]) > 0}

IsOk(entry) == entry.result = "ok"

\* The loop of main is over.
LoopDone == pc \in {"write", "done"} /\ remainingCalls = "known"

\* listUniqueProjects has just returned for the repository of iteration i.
JustAggregated == pc = "loop" /\ i > 0 /\ Len(log) = i /\ log[i].result = "ok"

LastRow == csvData[Len(csvData)]

\* C1: failure isolation.  Once the loop is over every repository of the
\* list has been attempted, in order, whatever calls failed; and at every
\* moment a repository name has exactly as many rows as it has successful
\* attempts, so a failed attempt adds no row and a later success still does.
C1_FailureIsolation ==
  /\ LoopDone =>
       /\ Len(log) = Len(repos)
       /\ \A k \in 1..Len(log) : log[k].repo = repos[k]
  /\ \A r \in RepoNames :
       Cardinality({k \in 1..Len(csvData) : csvData[k][2] = r})
         = Cardinality({k \in 1..Len(log) : log[k].repo = r /\ IsOk(log[k])})

C1_Witness ==
  /\ pc = "done"
  /\ Len(log) = 2
  /\ ~IsOk(log[1])
  /\ IsOk(log[2])
  /\ Len(outputFile) = 2
  /\ outputFile[2][2] = repos[2]

\* C2: the written report is the header row followed by one row per
\* successfully processed repository, in the order of the input list.
C2_ReportRows ==
  outputFile # <<>> =>
    LET rows == Tail(outputFile)
        ok == SelectSeq(log, IsOk)
    IN /\ outputFile[1] = csvHeaders
       /\ Len(rows) = Len(ok)
       /\ \A k \in 1..Len(rows) :
            /\ Len(rows[k]) = 5
            /\ rows[k][1] = orgName
            /\ rows[k][2] = ok[k].repo

C2_Witness ==
  /\ Len(outputFile) = 3
  /\ outputFile[2][2] = "alpha"
  /\ outputFile[3][2] = "beta"

\* C3: the unique_projects_linked_by_issues field of a repository's row is
\* the number of distinct project identifiers over all its issues, and the
\* mapping holds one entry per identifier.
C3_DistinctIdentifiers ==
  JustAggregated =>
    /\ LastRow[4] = Cardinality(IdsIn(response.nodes))
    /\ {uniqueProjects[k].number : k \in 1..Len(uniqueProjects)} = IdsIn(response.nodes)
    /\ \A a, b \in 1..Len(uniqueProjects) :
         uniqueProjects[a].number = uniqueProjects[b].number => a = b

\* Two projects titled alike with two identifiers were counted as two.
C3_Witness ==
  /\ JustAggregated
  /\ IdsIn(response.nodes) = {5, 8}
  /\ LastRow[4] = 2
  /\ \A k \in 1..Len(uniqueProjects) : uniqueProjects[k].title = "Roadmap"

\* C4: on a primary-rate-limit answer the request is retried exactly when it
\* has not been retried before (retryCount < 1); otherwise the call fails:
\* getRateLimit fails the run, a page request fails its repository, which
\* gets no row.
C4_PrimaryRetriedOnce ==
  [][inflight = "primary" =>
       IF retryCount < 1
       THEN retryCount' = retryCount + 1 /\ inflight' = "none" /\ pc' = pc
       ELSE /\ retryCount' = retryCount
            /\ inflight' = "none"
            /\ csvData' = csvData
            /\ IF pc = "paginate"
               THEN pc' = "loop" /\ log' = Append(log, [repo |-> repo, result |-> "primary"])
               ELSE pc' = "done" /\ failed' = "actionFailed"]_vars

\* A repository failed on the second of two primary-rate-limit answers.
C4_Witness ==
  /\ abuseHandler = "onSecondaryRateLimit"
  /\ pc = "loop"
  /\ Len(log) > 0
  /\ log[Len(log)].result = "primary"
  /\ retryCount = 1

\* C5: a secondary-rate-limit answer is never retried: the request count does
\* not go up and the call fails.
C5_SecondaryNeverRetried ==
  [][inflight = "secondary" =>
       retryCount' = retryCount /\ pc' \in {"loop", "done"}]_vars

\* C6: the count of a project is the number of issues that reference it.
C6_CountPerIssue ==
  JustAggregated =>
    \A k \in 1..Len(uniqueProjects) :
      uniqueProjects[k].count
        = Cardinality(IssuesReferencing(response.nodes, uniqueProjects[k].number))

\* C7: once the missing or invalid repository list file is detected, no
\* GraphQL request has been made and no report is written.
C7_ConfigErrorBeforeNetwork ==
  failed \in {"fileNotFound", "notAFile"} =>
    ~networkUsed /\ outputFile = <<>>

\* C8: whatever pages the issues of a repository arrived in, the mapping and
\* issuesWithProjectCount are those of the same issues aggregated as one page.
C8_PageSplitIndependent ==
  JustAggregated =>
    LET single == ForEachIssue(server[repo].issues,
                    [uniqueProjects |-> <<>>, issuesWithProjectCount |-> 0])
    IN /\ uniqueProjects = single.uniqueProjects
       /\ issuesWithProjectCount = single.issuesWithProjectCount

C8_Witness ==
  /\ JustAggregated
  /\ pageCount >= 2
  /\ Len(uniqueProjects) >= 2
  /\ issuesWithProjectCount >= 2

\* C9: every row holds the numbers of its own repository's data, whatever
\* was processed before it.
C9_NoSharedState ==
  \A k \in 1..Len(csvData) :
    LET name == csvData[k][2]
        nodes == server[name].issues
    IN csvData[k] = <<orgName, name, Cardinality(IssuesWithProjects(nodes)),
                      Cardinality(IdsIn(nodes)), server[name].totalCount>>

\* A repository with one project was processed after one with two.
C9_Witness ==
  /\ Len(csvData) = 2
  /\ csvData[1][4] = 2
  /\ csvData[2][4] = 1
  /\ csvData[2][3] = 1

\* C10: while getRateLimit has not returned a value no repository is queried
\* and no report exists; if it failed the run is marked failed and is over.
C10_RateLimitOutsideIsolation ==
  remainingCalls = "unset" =>
    /\ pc \in {"getRateLimit", "done"}
    /\ i = 0
    /\ log = <<>>
    /\ outputFile = <<>>
    /\ pc = "done" => failed = "actionFailed"

C10_Witness ==
  /\ pc = "done"
  /\ remainingCalls = "unset"
  /\ failed = "actionFailed"
  /\ outputFile = <<>>

====
